---- MODULE Spec2Model ----
(***************************************************************************)
(* The S3 upload proxy (proxy.go) and its AMQP messenger (main.go).        *)
(*                                                                         *)
(* Strings are sequences of atoms: an atom is a separator character ("/",  *)
(* "?", "&", "=", a double quote) or a run of other characters that the    *)
(* code only ever compares as a whole ("alice", "uploadId", "%2F").        *)
(* Substring tests, splits and the two regular expressions are computed    *)
(* on these sequences the way the Go code computes them on bytes.          *)
(***************************************************************************)
EXTENDS Naturals, Sequences, FiniteSets

(* ------------------------------------------------------------------ *)
(* Bounds                                                              *)
(* ------------------------------------------------------------------ *)

\* How many confirmation listeners SendMessage may register in one run
\* (one per call: they are never removed from the channel).
MaxListeners == 2

\* The goroutines of the HTTP server that may serve a request.
Conns == {1, 2}

(* ------------------------------------------------------------------ *)
(* strings, net/url, regexp                                            *)
(* ------------------------------------------------------------------ *)

\* strings.HasPrefix / strings.HasSuffix / strings.Contains
HasPrefix(s, pre) ==
    /\ Len(pre) <= Len(s)
    /\ SubSeq(s, 1, Len(pre)) = pre

HasSuffix(s, suf) ==
    /\ Len(suf) <= Len(s)
    /\ SubSeq(s, Len(s) - Len(suf) + 1, Len(s)) = suf

\* The offsets (0-based) at which sub occurs in s.
Occurrences(s, sub) ==
    IF Len(sub) > Len(s) THEN {}
    ELSE {i \in 0..(Len(s) - Len(sub)) : SubSeq(s, i + 1, i + Len(sub)) = sub}

Contains(s, sub) == Occurrences(s, sub) # {}

Min(S) == CHOOSE x \in S : \A y \in S : x <= y

\* strings.Split(s, sep) for a non-empty sep: the pieces between the
\* non-overlapping occurrences of sep, leftmost first.
RECURSIVE Split(_, _)
Split(s, sep) ==
    IF ~Contains(s, sep) THEN <<s>>
    ELSE LET i == Min(Occurrences(s, sep))
         IN  <<SubSeq(s, 1, i)>> \o Split(SubSeq(s, i + Len(sep) + 1, Len(s)), sep)

\* strings.Replace(s, old, new, 1): the leftmost occurrence only.
ReplaceFirst(s, old, new) ==
    IF ~Contains(s, old) THEN s
    ELSE LET i == Min(Occurrences(s, old))
         IN  SubSeq(s, 1, i) \o new \o SubSeq(s, i + Len(old) + 1, Len(s))

\* strings.ReplaceAll(s, old, "") for a one-atom old.
RECURSIVE RemoveAll(_, _)
RemoveAll(s, a) ==
    IF s = <<>> THEN <<>>
    ELSE (IF Head(s) = a THEN <<>> ELSE <<Head(s)>>) \o RemoveAll(Tail(s), a)

\* url.URL.EscapedPath: a "?" inside the decoded path is written %3F, so a
\* path never opens a query in URL.String().
EscapeAtom(a) == IF a = "?" THEN "%3F" ELSE a

EscapedPath(path) == [i \in 1..Len(path) |-> EscapeAtom(path[i])]

\* url.URL.String() of a server-side request URL (no scheme, no host):
\* the escaped path, then "?" and the raw query when there is one.
URLString(u) ==
    EscapedPath(u.Path) \o (IF u.RawQuery = <<>> THEN <<>> ELSE <<"?">> \o u.RawQuery)

\* A match of [^/]+ from position i to position j of s.
Segment(s, i, j) ==
    /\ i <= j
    /\ \A k \in i..j : s[k] # "/"

\* regexp "/([^/]+)/": the leftmost match, its group 1; <<>> stands for the
\* nil slice FindStringSubmatch returns when nothing matches.
RewriterMatches(s) ==
    {m \in (1..Len(s)) \X (1..Len(s)) :
        /\ s[m[1]] = "/"
        /\ s[m[2]] = "/"
        /\ Segment(s, m[1] + 1, m[2] - 1)}

RewriterUsername(s) ==
    IF RewriterMatches(s) = {} THEN <<>>
    ELSE LET i == Min({m[1] : m \in RewriterMatches(s)})
             j == Min({m[2] : m \in {x \in RewriterMatches(s) : x[1] = i}})
         IN  SubSeq(s, i + 1, j - 1)

\* regexp "/[^/]+/([^/]+)/": the leftmost match, its group 1.
EventMatches(s) ==
    {m \in (1..Len(s)) \X (1..Len(s)) \X (1..Len(s)) :
        /\ s[m[1]] = "/"
        /\ s[m[2]] = "/"
        /\ s[m[3]] = "/"
        /\ Segment(s, m[1] + 1, m[2] - 1)
        /\ Segment(s, m[2] + 1, m[3] - 1)}

EventUsername(s) ==
    IF EventMatches(s) = {} THEN <<>>
    ELSE LET i == Min({m[1] : m \in EventMatches(s)})
             m == CHOOSE x \in EventMatches(s) : x[1] = i
         IN  SubSeq(s, m[2] + 1, m[3] - 1)

(* ------------------------------------------------------------------ *)
(* Configuration and request inputs                                    *)
(* ------------------------------------------------------------------ *)

\* p.s3.bucket
Bucket == <<"inbox">>

\* "/" + bucket + "/"
BucketRoot == <<"/">> \o Bucket \o <<"/">>

Methods == {"GET", "PUT", "POST", "DELETE", "HEAD"}

\* Decoded request paths (r.URL.Path).
Paths ==
    { <<"/", "alice", "/", "data.bam">>,
      <<"/", "alice", "/">>,
      <<"/", "alice">>,
      <<"/", "alice", "/", "uploadId">>,
      <<"/", "alice", "/", "a", "?", "acl">>,
      <<"/", "/", "alice", "/", "data.bam">>,
      <<"/", "/", "alice", "/", "bob", "/", "data.bam">> }

\* Raw queries (r.URL.RawQuery).
Queries ==
    { <<>>,
      <<"uploadId", "=", "1">>,
      <<"partNumber", "=", "1", "&", "uploadId", "=", "1">>,
      <<"acl">>,
      <<"policy">>,
      <<"x", "=", "1", "&", "acl">>,
      <<"x", "=", "1", "&", "policy">>,
      <<"location">>,
      <<"delimiter", "=", "%2F">>,
      <<"delimiter", "=", "%2F", "&", "prefix", "=", "sub">>,
      <<"delimiter", "=", "/", "&", "prefix", "=", "sub", "/">>,
      <<"prefix", "=", "sub", "&", "delimiter", "=", "%2F">>,
      <<"delimiter", "=", "%2F", "&", "prefix">>,
      <<"delimiter", "=", "%2F", "&", "prefix", "=", "a", "&", "prefix", "=", "b">> }

\* Values of the inbound content-length header ("" when it is absent, "5x"
\* one that is not a decimal number).
ContentLengths == {"5", "", "5x"}

AllRequests ==
    [Method : Methods, URL : [Path : Paths, RawQuery : Queries],
     ContentLength : ContentLengths]

\* The requests two goroutines serve at the same time: the state space of
\* two interleaved handlers is explored on these.
ConcurrentRequests ==
    [Method : {"PUT", "GET", "DELETE"},
     URL : [Path : {<<"/", "alice", "/", "data.bam">>, <<"/", "alice">>},
            RawQuery : {<<>>}],
     ContentLength : {"5"}]

\* strconv.ParseInt(h, 10, 64) on the header values above.
Decimal == [h \in {"0", "5", "7"} |-> CASE h = "0" -> 0 [] h = "5" -> 5 [] h = "7" -> 7]

ParseInt(h) ==
    IF h \in DOMAIN Decimal THEN [n |-> Decimal[h], err |-> FALSE]
    ELSE [n |-> 0, err |-> TRUE]

\* What the backend may answer to a forwarded request.
BackendResponses ==
    { [StatusCode |-> 200, Header |-> "h200", Body |-> "b200"],
      [StatusCode |-> 204, Header |-> "h204", Body |-> "b204"],
      [StatusCode |-> 404, Header |-> "h404", Body |-> "b404"] }

\* What ListObjectsV2 may list as the first object under a prefix: the ETag
\* is quoted on the wire.
BackendObjects ==
    { [ETag |-> <<"\"", "e1", "\"">>, Size |-> 5],
      [ETag |-> <<"\"", "e2", "\"">>, Size |-> 7] }

NoObject == [ETag |-> <<>>, Size |-> 0]

\* No call of requestInfo yet.
NoLookup == [outcome |-> "none", prefix |-> <<>>, object |-> NoObject]

NoResponse == [StatusCode |-> 0, Header |-> "", Body |-> ""]

NoEvent == [Operation |-> "", Username |-> <<>>, Filepath |-> <<>>, Filesize |-> 0,
            Checksum |-> [Type |-> "", Value |-> <<>>]]

\* make(chan amqp.Confirmation, 100): the buffer of a listener.
ConfirmBuffer == 100

\* amqp.Confirmation{}: what a receive on a closed channel yields.
ZeroConfirmation == [DeliveryTag |-> 0, Ack |-> FALSE]

(* ------------------------------------------------------------------ *)
(* proxy.go: the pure parts                                            *)
(* ------------------------------------------------------------------ *)

\* A classification that takes a GET ending in "/" for a listing.
detectRequestTypeListingBucket(r) ==
    LET url == URLString(r.URL)
    IN  CASE r.Method = "GET" ->
                 IF Contains(url, <<"?", "acl">>) THEN "Policy" ELSE "List"
          [] r.Method = "DELETE" ->
                 IF HasSuffix(url, <<"/">>) THEN "RemoveBucket"
                 ELSE IF Contains(url, <<"uploadId">>) THEN "AbortMultipart"
                 ELSE "Delete"
          [] r.Method = "PUT" ->
                 IF HasSuffix(url, <<"/">>) THEN "MakeBucket"
                 ELSE IF Contains(url, <<"?", "policy">>) THEN "Policy"
                 ELSE "Put"
          [] OTHER -> "Other"

detectRequestType(r) ==
    LET url == URLString(r.URL)
    IN  CASE r.Method = "GET" ->
                 IF HasSuffix(url, <<"/">>) THEN "Get"
                 ELSE IF Contains(url, <<"?", "acl">>) THEN "Policy"
                 ELSE "List"
          [] r.Method = "DELETE" ->
                 IF HasSuffix(url, <<"/">>) THEN "RemoveBucket"
                 ELSE IF Contains(url, <<"uploadId">>) THEN "AbortMultipart"
                 ELSE "Delete"
          [] r.Method = "PUT" ->
                 IF HasSuffix(url, <<"/">>) THEN "MakeBucket"
                 ELSE IF Contains(url, <<"?", "policy">>) THEN "Policy"
                 ELSE "Put"
          [] OTHER -> "Other"

\* The switch of ServeHTTP: which response function handles type t.
DispatchAllowingDelete(t) ==
    IF t \in {"MakeBucket", "RemoveBucket", "Policy", "Get"} THEN "notAllowedResponse"
    ELSE IF t \in {"Put", "List", "Other", "AbortMultipart", "Delete"} THEN "allowedResponse"
    ELSE "notAllowedResponse"

Dispatch(t) ==
    IF t \in {"MakeBucket", "RemoveBucket", "Delete", "Policy", "Get"} THEN "notAllowedResponse"
    ELSE IF t \in {"Put", "List", "Other", "AbortMultipart"} THEN "allowedResponse"
    ELSE "notAllowedResponse"

\* allowedResponse after Authenticate returned: where the handler goes.
AfterAuthenticateIgnoringError(failed) == "prepend"

AfterAuthenticate(failed) == IF failed THEN "notAuthorized" ELSE "prepend"

\* prependBucketToHostPath indexes [1] of a nil match, or params[1] of a
\* one-element split: a run-time panic.
prependPanics(r) ==
    \/ RewriterUsername(r.URL.Path) = <<>>
    \/ /\ r.Method = "GET"
       /\ Contains(URLString(r.URL), <<"?", "delimiter">>)
       /\ Contains(r.URL.RawQuery, <<"&", "prefix">>)
       /\ Len(Split(r.URL.RawQuery, <<"&", "prefix", "=">>)) < 2

\* A rewriter that leaves the path of a POST as it came.
prependBucketToPutOnly(r) ==
    LET username == RewriterUsername(r.URL.Path)
        url == URLString(r.URL)
        params == Split(r.URL.RawQuery, <<"&", "prefix", "=">>)
    IN  IF r.Method = "GET" /\ Contains(url, <<"?", "delimiter">>)
        THEN [Path |-> BucketRoot,
              RawQuery |->
                  IF Contains(r.URL.RawQuery, <<"&", "prefix">>)
                  THEN params[1] \o <<"&", "prefix", "=">> \o username \o <<"%2F">> \o params[2]
                  ELSE r.URL.RawQuery \o <<"&", "prefix", "=">> \o username \o <<"%2F">>]
        ELSE IF r.Method = "GET" /\ Contains(url, <<"?", "location">>)
        THEN [Path |-> BucketRoot, RawQuery |-> r.URL.RawQuery]
        ELSE IF r.Method = "PUT"
        THEN [Path |-> <<"/">> \o Bucket \o r.URL.Path, RawQuery |-> r.URL.RawQuery]
        ELSE r.URL

\* The URL prependBucketToHostPath leaves in the request.
prependBucketToHostPath(r) ==
    LET username == RewriterUsername(r.URL.Path)
        url == URLString(r.URL)
        params == Split(r.URL.RawQuery, <<"&", "prefix", "=">>)
    IN  IF r.Method = "GET" /\ Contains(url, <<"?", "delimiter">>)
        THEN [Path |-> BucketRoot,
              RawQuery |->
                  IF Contains(r.URL.RawQuery, <<"&", "prefix">>)
                  THEN params[1] \o <<"&", "prefix", "=">> \o username \o <<"%2F">> \o params[2]
                  ELSE r.URL.RawQuery \o <<"&", "prefix", "=">> \o username \o <<"%2F">>]
        ELSE IF r.Method = "GET" /\ Contains(url, <<"?", "location">>)
        THEN [Path |-> BucketRoot, RawQuery |-> r.URL.RawQuery]
        ELSE IF r.Method = "POST" \/ r.Method = "PUT"
        THEN [Path |-> <<"/">> \o Bucket \o r.URL.Path, RawQuery |-> r.URL.RawQuery]
        ELSE r.URL

uploadFinishedIgnoringPartNumber(r, response) ==
    IF response.StatusCode # 200 THEN FALSE
    ELSE IF r.Method = "PUT" THEN TRUE
    ELSE IF r.Method = "POST" /\ Contains(URLString(r.URL), <<"uploadId">>) THEN TRUE
    ELSE FALSE

uploadFinishedSuccessfully(r, response) ==
    IF response.StatusCode # 200 THEN FALSE
    ELSE IF r.Method = "PUT" /\ ~Contains(URLString(r.URL), <<"partNumber">>) THEN TRUE
    ELSE IF r.Method = "POST" /\ Contains(URLString(r.URL), <<"uploadId">>) THEN TRUE
    ELSE FALSE

\* The request forwardToBackend hands to client.Do: the method and URL of
\* the rewritten request, the content length parsed with its error ignored.
BackendRequest(r) ==
    [Method |-> r.Method, URL |-> r.URL, ContentLength |-> ParseInt(r.ContentLength).n]

\* requestInfo: the prefix it lists, and what it returns for a listed object.
requestInfoPrefix(fullPath) == ReplaceFirst(fullPath, BucketRoot, <<>>)

\* The event CreateMessageFromRequest builds from the (rewritten) request
\* and the object requestInfo found.
CreateMessageFromRequest(r, object) ==
    [Operation |-> "upload",
     Username  |-> EventUsername(r.URL.Path),
     Filepath  |-> r.URL.Path,
     Filesize  |-> object.Size,
     Checksum  |-> [Type |-> "md5", Value |-> RemoveAll(object.ETag, "\"")]]

(* ------------------------------------------------------------------ *)
(* State                                                               *)
(* ------------------------------------------------------------------ *)

VARIABLES
    conns,        \* the goroutines that serve requests in this run
    alive,        \* the process runs (FALSE after log.Fatal: os.Exit(1))
    pc,           \* where each goroutine's handler stands
    r,            \* the *http.Request of each handler (its URL is rewritten in place)
    inbound,      \* the request as it arrived
    w,            \* what the http.ResponseWriter delivered to the caller
    s3response,   \* the backend's response held by allowedResponse
    message,      \* the Event built by CreateMessageFromRequest
    err,          \* the error SendMessage holds from Publish, and returns
    listener,     \* the index in confirms of the channel SendMessage registered
    tag,          \* the delivery tag the channel gave this handler's publish
    confirmed,    \* the Confirmation confirmOne received
    authCalls,    \* calls of Authenticate made for the request
    authErr,      \* Authenticate returned an error for the request
    forwardErr,   \* forwardToBackend returned an error for the request
    sent,         \* the requests client.Do sent to the backend for the request
    lookup,       \* requestInfo's call for the request: its prefix and how it ended
    events,       \* the events the request's Publish handed to the broker
    chanOpen,     \* the shared amqp channel is open
    confirms,     \* the channel's NotifyPublish listeners, in registration order
    published,    \* the channel's publish counter (the last delivery tag)
    unconfirmed   \* delivery tags the broker has not confirmed yet

vars == <<conns, alive, pc, r, inbound, w, s3response, message, err, listener, tag,
          confirmed, authCalls, authErr, forwardErr, sent, lookup, events, chanOpen, confirms,
          published, unconfirmed>>

handlerVars == <<r, inbound, w, s3response, message, err, listener, tag, confirmed,
                 authCalls, authErr, forwardErr, sent, lookup, events>>

brokerVars == <<chanOpen, confirms, published, unconfirmed>>

NoRequest == [Method |-> "", URL |-> [Path |-> <<>>, RawQuery |-> <<>>], ContentLength |-> ""]

\* The requests clients send: every shape when one goroutine serves, the
\* upload shapes when two serve at once.
Requests == IF Cardinality(conns) = 1 THEN AllRequests ELSE ConcurrentRequests

\* The goroutines inside a handler call.
Busy == {c \in Conns : pc[c] # "idle"}

InitHandlers ==
    /\ alive = TRUE
    /\ pc = [c \in Conns |-> "idle"]
    /\ r = [c \in Conns |-> NoRequest]
    /\ inbound = [c \in Conns |-> NoRequest]
    /\ w = [c \in Conns |-> NoResponse]
    /\ s3response = [c \in Conns |-> NoResponse]
    /\ message = [c \in Conns |-> NoEvent]
    /\ err = [c \in Conns |-> FALSE]
    /\ listener = [c \in Conns |-> 0]
    /\ tag = [c \in Conns |-> 0]
    /\ confirmed = [c \in Conns |-> ZeroConfirmation]
    /\ authCalls = [c \in Conns |-> 0]
    /\ authErr = [c \in Conns |-> FALSE]
    /\ forwardErr = [c \in Conns |-> FALSE]
    /\ sent = [c \in Conns |-> <<>>]
    /\ lookup = [c \in Conns |-> NoLookup]
    /\ events = [c \in Conns |-> <<>>]
    /\ chanOpen = TRUE
    /\ confirms = <<>>
    /\ published = 0
    /\ unconfirmed = <<>>

\* NewAMQPMessenger has opened the channel in confirm mode; one goroutine serves.
Init ==
    /\ conns = {1}
    /\ InitHandlers

\* The same, with two goroutines serving at the same time.
InitConcurrent ==
    /\ conns = Conns
    /\ InitHandlers

(* ------------------------------------------------------------------ *)
(* The handler, one action per step of ServeHTTP / allowedResponse      *)
(* ------------------------------------------------------------------ *)

Goto(c, label) == pc' = [pc EXCEPT ![c] = label]

\* w.WriteHeader(status) of the three error responses.
WriteHeader(c, status) ==
    w' = [w EXCEPT ![c] = [StatusCode |-> status, Header |-> "", Body |-> ""]]

\* log.Fatal*: the process exits, whatever the other goroutines are doing.
Fatal(c) ==
    /\ alive' = FALSE
    /\ Goto(c, "exited")

\* The HTTP server hands a connection's next request to its goroutine.
Receive(c) ==
    /\ alive
    /\ c \in conns
    /\ pc[c] = "idle"
    /\ Len(confirms) + Cardinality(Busy) < MaxListeners
    /\ \E req \in Requests :
          /\ r' = [r EXCEPT ![c] = req]
          /\ inbound' = [inbound EXCEPT ![c] = req]
    /\ Goto(c, "ServeHTTP")
    /\ UNCHANGED <<conns, alive, w, s3response, message, err, listener, tag, confirmed,
                   authCalls, authErr, forwardErr, sent, lookup, events, brokerVars>>

\* The handler call is over (returned, or unwound by a panic): the
\* request's values go out of scope and the goroutine waits for the next.
Return(c) ==
    /\ alive
    /\ pc[c] \in {"done", "panicked"}
    /\ r' = [r EXCEPT ![c] = NoRequest]
    /\ inbound' = [inbound EXCEPT ![c] = NoRequest]
    /\ w' = [w EXCEPT ![c] = NoResponse]
    /\ s3response' = [s3response EXCEPT ![c] = NoResponse]
    /\ message' = [message EXCEPT ![c] = NoEvent]
    /\ err' = [err EXCEPT ![c] = FALSE]
    /\ listener' = [listener EXCEPT ![c] = 0]
    /\ tag' = [tag EXCEPT ![c] = 0]
    /\ confirmed' = [confirmed EXCEPT ![c] = ZeroConfirmation]
    /\ authCalls' = [authCalls EXCEPT ![c] = 0]
    /\ authErr' = [authErr EXCEPT ![c] = FALSE]
    /\ forwardErr' = [forwardErr EXCEPT ![c] = FALSE]
    /\ sent' = [sent EXCEPT ![c] = <<>>]
    /\ lookup' = [lookup EXCEPT ![c] = NoLookup]
    /\ events' = [events EXCEPT ![c] = <<>>]
    /\ Goto(c, "idle")
    /\ UNCHANGED <<conns, alive, brokerVars>>

\* ServeHTTP: classify, then 403 or on to allowedResponse.
ServeHTTP(c) ==
    /\ alive
    /\ pc[c] = "ServeHTTP"
    /\ IF Dispatch(detectRequestType(r[c])) = "allowedResponse"
       THEN /\ Goto(c, "Authenticate")
            /\ UNCHANGED w
       ELSE /\ WriteHeader(c, 403)
            /\ Goto(c, "done")
    /\ UNCHANGED <<conns, alive, r, inbound, s3response, message, err, listener, tag,
                   confirmed, authCalls, authErr, forwardErr, sent, lookup, events, brokerVars>>

\* allowedResponse: p.auth.Authenticate(r), and 401 when it fails.
Authenticate(c) ==
    /\ alive
    /\ pc[c] = "Authenticate"
    /\ authCalls' = [authCalls EXCEPT ![c] = @ + 1]
    /\ \E failed \in BOOLEAN :
          /\ authErr' = [authErr EXCEPT ![c] = failed]
          /\ IF AfterAuthenticate(failed) = "notAuthorized"
             THEN /\ WriteHeader(c, 401)
                  /\ Goto(c, "done")
             ELSE /\ UNCHANGED w
                  /\ Goto(c, "prepend")
    /\ UNCHANGED <<conns, alive, r, inbound, s3response, message, err, listener, tag,
                   confirmed, forwardErr, sent, lookup, events, brokerVars>>

\* allowedResponse: p.prependBucketToHostPath(r). A panic unwinds the
\* handler; net/http recovers it and closes the connection unanswered.
Prepend(c) ==
    /\ alive
    /\ pc[c] = "prepend"
    /\ IF prependPanics(r[c])
       THEN /\ Goto(c, "panicked")
            /\ UNCHANGED r
       ELSE /\ r' = [r EXCEPT ![c].URL = prependBucketToHostPath(r[c])]
            /\ Goto(c, "forwardToBackend")
    /\ UNCHANGED <<conns, alive, inbound, w, s3response, message, err, listener, tag,
                   confirmed, authCalls, authErr, forwardErr, sent, lookup, events, brokerVars>>

\* A forward that keeps trying after an error instead of answering 500.
AfterForwardRetrying(failed) ==
    IF failed THEN "forwardToBackend" ELSE "uploadFinishedSuccessfully"

\* allowedResponse after forwardToBackend: an error is logged and answered
\* with internalServerError, and the handler returns.
AfterForward(failed) ==
    IF failed THEN "internalServerError" ELSE "uploadFinishedSuccessfully"

\* allowedResponse: forwardToBackend, 500 when it fails, and the choice of
\* uploadFinishedSuccessfully when it answers. http.NewRequest fails before
\* anything is sent; client.Do fails after the request went out.
Forward(c) ==
    /\ alive
    /\ pc[c] = "forwardToBackend"
    /\ \E outcome \in {"NewRequest error", "Do error", "response"}, res \in BackendResponses :
          /\ sent' = [sent EXCEPT ![c] =
                         IF outcome = "NewRequest error" THEN @
                         ELSE Append(@, BackendRequest(r[c]))]
          /\ forwardErr' = [forwardErr EXCEPT ![c] = outcome # "response"]
          /\ CASE AfterForward(outcome # "response") = "internalServerError" ->
                    /\ WriteHeader(c, 500)
                    /\ UNCHANGED s3response
                    /\ Goto(c, "done")
               [] AfterForward(outcome # "response") = "forwardToBackend" ->
                    /\ UNCHANGED <<w, s3response>>
                    /\ Goto(c, "forwardToBackend")
               [] OTHER ->
                    /\ s3response' = [s3response EXCEPT ![c] = res]
                    /\ UNCHANGED w
                    /\ IF uploadFinishedSuccessfully(r[c], res)
                       THEN Goto(c, "CreateMessageFromRequest")
                       ELSE Goto(c, "redirect")
    /\ UNCHANGED <<conns, alive, r, inbound, message, err, listener, tag, confirmed,
                   authCalls, authErr, lookup, events, brokerVars>>

\* CreateMessageFromRequest with requestInfo: the user name from the
\* rewritten path (a panic on no match), then the backend listing: an error
\* is log.Fatalf, an empty listing a panic on Contents[0].
CreateMessage(c) ==
    /\ pc[c] = "CreateMessageFromRequest"
    /\ alive
    /\ IF EventUsername(r[c].URL.Path) = <<>>
       THEN /\ Goto(c, "panicked")
            /\ UNCHANGED <<alive, message, lookup>>
       ELSE \E outcome \in {"error", "empty", "found"}, object \in BackendObjects :
               /\ lookup' = [lookup EXCEPT ![c] =
                                [outcome |-> outcome,
                                 prefix |-> requestInfoPrefix(r[c].URL.Path),
                                 object |-> IF outcome = "found" THEN object ELSE NoObject]]
               /\ CASE outcome = "error" ->
                          /\ Fatal(c)
                          /\ UNCHANGED message
                    [] outcome = "empty" ->
                          /\ Goto(c, "panicked")
                          /\ UNCHANGED <<alive, message>>
                    [] outcome = "found" ->
                          /\ message' = [message EXCEPT ![c] =
                                            CreateMessageFromRequest(r[c], object)]
                          /\ Goto(c, "Confirm")
                          /\ UNCHANGED alive
    /\ UNCHANGED <<conns, r, inbound, w, s3response, err, listener, tag, confirmed,
                   authCalls, authErr, forwardErr, sent, events, brokerVars>>

(* ------------------------------------------------------------------ *)
(* SendMessage on the shared channel                                   *)
(* ------------------------------------------------------------------ *)

\* m.channel.Confirm(false): an error (the channel is closed) is log.Fatalf.
ConfirmSelect(c) ==
    /\ alive
    /\ pc[c] = "Confirm"
    /\ IF chanOpen
       THEN /\ Goto(c, "NotifyPublish")
            /\ UNCHANGED alive
       ELSE Fatal(c)
    /\ UNCHANGED <<conns, handlerVars, brokerVars>>

\* m.channel.NotifyPublish(make(chan amqp.Confirmation, 100)): one more
\* listener on the channel; on a closed channel the library closes it at once.
NotifyPublish(c) ==
    /\ alive
    /\ pc[c] = "NotifyPublish"
    /\ confirms' = Append(confirms, [closed |-> ~chanOpen, q |-> <<>>])
    /\ listener' = [listener EXCEPT ![c] = Len(confirms) + 1]
    /\ Goto(c, "Publish")
    /\ UNCHANGED <<conns, alive, r, inbound, w, s3response, message, err, tag, confirmed,
                   authCalls, authErr, forwardErr, sent, lookup, events, chanOpen, published, unconfirmed>>

\* json.Marshal and m.channel.Publish: on an open channel the message goes
\* out under the next delivery tag; on a closed one Publish returns an
\* error. (json.Marshal of an Event, strings and an int64, does not fail.)
Publish(c) ==
    /\ alive
    /\ pc[c] = "Publish"
    /\ IF chanOpen
       THEN /\ published' = published + 1
            /\ unconfirmed' = Append(unconfirmed, published + 1)
            /\ tag' = [tag EXCEPT ![c] = published + 1]
            /\ events' = [events EXCEPT ![c] = Append(@, message[c])]
            /\ err' = [err EXCEPT ![c] = FALSE]
       ELSE /\ err' = [err EXCEPT ![c] = TRUE]
            /\ UNCHANGED <<published, unconfirmed, tag, events>>
    /\ Goto(c, "confirmOne")
    /\ UNCHANGED <<conns, alive, r, inbound, w, s3response, message, listener, confirmed,
                   authCalls, authErr, forwardErr, sent, lookup, chanOpen, confirms>>

\* The error SendMessage returns: Publish's. The deferred confirmOne's
\* result is dropped.
SendMessageResult(publishErr, confirmation) == publishErr

\* A handler that answers 500 when SendMessage returned an error.
AfterSendMessageFailing(failed) ==
    IF failed THEN "internalServerError" ELSE "redirect"

\* allowedResponse after SendMessage: its error is logged and the handler
\* goes on to copy the backend's response either way.
AfterSendMessage(failed) == "redirect"

\* defer confirmOne(confirms): block until the registered listener yields a
\* confirmation (the zero value once it is closed and drained); SendMessage
\* then returns and allowedResponse only logs its error.
ConfirmOne(c) ==
    /\ alive
    /\ pc[c] = "confirmOne"
    /\ LET l == confirms[listener[c]]
           confirmation == IF l.q # <<>> THEN Head(l.q) ELSE ZeroConfirmation
           result == SendMessageResult(err[c], confirmation)
       IN  /\ l.q # <<>> \/ l.closed
           /\ confirmed' = [confirmed EXCEPT ![c] = confirmation]
           /\ confirms' = [confirms EXCEPT ![listener[c]].q =
                               IF l.q # <<>> THEN Tail(l.q) ELSE <<>>]
           /\ err' = [err EXCEPT ![c] = result]
           /\ IF AfterSendMessage(result) = "internalServerError"
              THEN WriteHeader(c, 500) /\ Goto(c, "done")
              ELSE UNCHANGED w /\ Goto(c, "redirect")
    /\ UNCHANGED <<conns, alive, r, inbound, s3response, message, listener, tag,
                   authCalls, authErr, forwardErr, sent, lookup, events, chanOpen,
                   published, unconfirmed>>

\* The status the caller sees after allowedResponse copied the backend's
\* headers and body: WriteHeader is never called with response.StatusCode,
\* so net/http sends 200 with the first Write (or when the handler returns).
RedirectStatus(response) == 200

\* allowedResponse: copy the headers, io.Copy the body; a copy error (the
\* caller went away) is log.Fatalln.
Redirect(c) ==
    /\ alive
    /\ pc[c] = "redirect"
    /\ \E copied \in BOOLEAN :
          IF copied
          THEN /\ w' = [w EXCEPT ![c] = [StatusCode |-> RedirectStatus(s3response[c]),
                                         Header |-> s3response[c].Header,
                                         Body |-> s3response[c].Body]]
               /\ Goto(c, "done")
               /\ UNCHANGED alive
          ELSE /\ Fatal(c)
               /\ UNCHANGED w
    /\ UNCHANGED <<conns, r, inbound, s3response, message, err, listener, tag, confirmed,
                   authCalls, authErr, forwardErr, sent, lookup, events, brokerVars>>

(* ------------------------------------------------------------------ *)
(* The broker and the amqp library's dispatch of confirmations         *)
(* ------------------------------------------------------------------ *)

\* The broker confirms the oldest unconfirmed publish with an ack or a
\* nack; the library sends the Confirmation to every registered listener
\* (a send blocks on a full buffer).
BrokerConfirm ==
    /\ alive
    /\ chanOpen
    /\ unconfirmed # <<>>
    /\ \A i \in 1..Len(confirms) : Len(confirms[i].q) < ConfirmBuffer
    /\ \E ack \in BOOLEAN :
          confirms' = [i \in 1..Len(confirms) |->
                          IF confirms[i].closed THEN confirms[i]
                          ELSE [confirms[i] EXCEPT
                                   !.q = Append(@, [DeliveryTag |-> Head(unconfirmed),
                                                    Ack |-> ack])]]
    /\ unconfirmed' = Tail(unconfirmed)
    /\ UNCHANGED <<conns, alive, pc, handlerVars, chanOpen, published>>

\* The connection to the broker is lost: the channel shuts down and the
\* library closes every listener.
BrokerClose ==
    /\ alive
    /\ chanOpen
    /\ chanOpen' = FALSE
    /\ confirms' = [i \in 1..Len(confirms) |-> [confirms[i] EXCEPT !.closed = TRUE]]
    /\ unconfirmed' = <<>>
    /\ UNCHANGED <<conns, alive, pc, handlerVars, published>>

Next ==
    \/ \E c \in Conns :
          \/ Receive(c)
          \/ ServeHTTP(c)
          \/ Authenticate(c)
          \/ Prepend(c)
          \/ Forward(c)
          \/ CreateMessage(c)
          \/ ConfirmSelect(c)
          \/ NotifyPublish(c)
          \/ Publish(c)
          \/ ConfirmOne(c)
          \/ Redirect(c)
          \/ Return(c)
    \/ BrokerConfirm
    \/ BrokerClose

Spec == Init /\ [][Next]_vars

SpecConcurrent == InitConcurrent /\ [][Next]_vars

\* The steps a handler goroutine takes on its own once it is scheduled. The
\* two waits on others are left out: Forward needs the backend to answer or
\* the connection to fail, and ConfirmOne, though listed, is enabled only
\* once the broker has confirmed or the channel was shut down.
HandlerStep(c) ==
    \/ ServeHTTP(c)
    \/ Authenticate(c)
    \/ Prepend(c)
    \/ CreateMessage(c)
    \/ ConfirmSelect(c)
    \/ NotifyPublish(c)
    \/ Publish(c)
    \/ ConfirmOne(c)
    \/ Redirect(c)
    \/ Return(c)

\* One connection with the Go scheduler's guarantee: a goroutine that can
\* run does run. Nothing is assumed of the clients, the backend or the
\* broker.
SpecLive == Init /\ [][Next]_vars /\ \A c \in Conns : WF_vars(HandlerStep(c))

(* ------------------------------------------------------------------ *)
(* Properties                                                          *)
(* ------------------------------------------------------------------ *)

AllowSet == {"Put", "List", "Other", "AbortMultipart"}

\* ServeHTTP has classified the request of goroutine c.
Classified(c) == pc[c] \notin {"idle", "ServeHTTP"}

\* What the policy gate saw: the type of the request as it arrived.
RequestType(c) == detectRequestType(inbound[c])

ErrorResponse(status) == [StatusCode |-> status, Header |-> "", Body |-> ""]

\* The parameters of a raw query, and whether one is named k.
Params(q) == Split(q, <<"&">>)

HasParam(q, k) ==
    \E i \in 1..Len(Params(q)) : Params(q)[i] # <<>> /\ Params(q)[i][1] = k

\* The values of the query's prefix parameters.
PrefixValues(q) ==
    {SubSeq(Params(q)[i], 3, Len(Params(q)[i])) :
        i \in {j \in 1..Len(Params(q)) : HasPrefix(Params(q)[j], <<"prefix", "=">>)}}

\* The caller's user name: the first non-empty segment of the path sent.
Username(c) == RewriterUsername(inbound[c].URL.Path)

\* SendMessage has returned to allowedResponse.
SendMessageReturned(c) == pc[c] \in {"redirect", "done"} /\ listener[c] # 0

\* C1: a request classified MakeBucket, RemoveBucket, Delete, Policy or Get
\* (anything outside the allow set) is answered 403 and nothing else is
\* done for it: Authenticate is not called, the request is not rewritten,
\* nothing is sent to the backend, no lookup is made, no event is published.
C1_DeniedIs403AndNothingElse ==
    \A c \in Conns :
        (Classified(c) /\ RequestType(c) \notin AllowSet) =>
            /\ pc[c] = "done"
            /\ w[c] = ErrorResponse(403)
            /\ authCalls[c] = 0
            /\ r[c] = inbound[c]
            /\ sent[c] = <<>>
            /\ lookup[c] = NoLookup
            /\ events[c] = <<>>

\* C1's case: a DELETE of an object has been answered 403.
C1_Witness ==
    \E c \in Conns :
        /\ pc[c] = "done"
        /\ RequestType(c) = "Delete"
        /\ w[c].StatusCode = 403

\* C2: every request sent to the backend addresses /<bucket>/<username>/...,
\* or the bucket root with a prefix that starts with <username>%2F, or the
\* bucket root with a location query.
Confined(u, user) ==
    \/ HasPrefix(u.Path, BucketRoot \o user \o <<"/">>)
    \/ /\ u.Path = BucketRoot
       /\ PrefixValues(u.RawQuery) # {}
       /\ \A v \in PrefixValues(u.RawQuery) : HasPrefix(v, user \o <<"%2F">>)
    \/ /\ u.Path = BucketRoot
       /\ HasParam(u.RawQuery, "location")

C2_ForwardedRequestsConfined ==
    \A c \in Conns : \A i \in 1..Len(sent[c]) : Confined(sent[c][i].URL, Username(c))

\* C3: once the handler is done with a request the backend answered, the
\* caller has the backend's status, headers and body.
C3_ResponseMirrorsBackend ==
    \A c \in Conns :
        (pc[c] = "done" /\ s3response[c] # NoResponse) => w[c] = s3response[c]

\* C4: a request that passed the policy gate reaches Authenticate first:
\* whatever was rewritten, forwarded, looked up or published was preceded by
\* one successful call; after a failed call the response is 401 and the
\* handler is done with the request unrewritten, unforwarded and without event.
C4_AuthenticateFirstAnd401 ==
    \A c \in Conns :
        /\ (Classified(c) /\ RequestType(c) \in AllowSet) =>
               \/ pc[c] = "Authenticate" /\ authCalls[c] = 0
               \/ authCalls[c] = 1
        /\ (authCalls[c] = 0 \/ authErr[c]) =>
               /\ r[c] = inbound[c]
               /\ sent[c] = <<>>
               /\ lookup[c] = NoLookup
               /\ events[c] = <<>>
               /\ pc[c] \in {"idle", "ServeHTTP", "Authenticate", "done"}
        /\ authErr[c] =>
               /\ pc[c] = "done"
               /\ w[c] = ErrorResponse(401)

\* C4's case: Authenticate failed and the handler is done.
C4_Witness ==
    \E c \in Conns :
        /\ authErr[c]
        /\ authCalls[c] = 1
        /\ pc[c] = "done"
        /\ w[c].StatusCode = 401

\* C5: a request has at most one event, and has one only if it was allowed,
\* authenticated, sent to the backend once, answered with a success status,
\* and is a PUT without a partNumber parameter or a POST whose URL holds
\* uploadId; a GET, a PUT with partNumber and a request answered 401, 403 or
\* 500 have none.
C5_EventOnlyForFinishedUpload ==
    \A c \in Conns :
        /\ Len(events[c]) <= 1
        /\ events[c] # <<>> =>
               /\ RequestType(c) \in AllowSet
               /\ authCalls[c] = 1
               /\ ~authErr[c]
               /\ Len(sent[c]) = 1
               /\ s3response[c].StatusCode \in 200..299
               /\ \/ /\ inbound[c].Method = "PUT"
                     /\ ~HasParam(inbound[c].URL.RawQuery, "partNumber")
                  \/ /\ inbound[c].Method = "POST"
                     /\ Contains(URLString(inbound[c].URL), <<"uploadId">>)
        /\ (\/ inbound[c].Method = "GET"
            \/ inbound[c].Method = "PUT" /\ HasParam(inbound[c].URL.RawQuery, "partNumber")
            \/ w[c].StatusCode \in {401, 403, 500}) =>
               events[c] = <<>>

\* C5's case: an upload finished and its event went to the broker.
C5_Witness ==
    \E c \in Conns :
        /\ Len(events[c]) = 1
        /\ inbound[c].Method = "PUT"
        /\ pc[c] \in {"redirect", "done"}

\* C6: an authenticated PUT /<username>/<key> answered 200 publishes
\* exactly one event, whose filepath is the path the caller sent, whose
\* operation is "upload" and whose size and checksum are the listed object's.
C6_EventCarriesCallerPath ==
    \A c \in Conns :
        (/\ inbound[c].Method = "PUT"
         /\ RequestType(c) = "Put"
         /\ ~HasParam(inbound[c].URL.RawQuery, "partNumber")
         /\ Username(c) # <<>>
         /\ s3response[c].StatusCode = 200) =>
            /\ \A i \in 1..Len(events[c]) :
                  /\ events[c][i].Operation = "upload"
                  /\ events[c][i].Filepath = inbound[c].URL.Path
                  /\ events[c][i].Filesize = lookup[c].object.Size
                  /\ events[c][i].Checksum.Value = RemoveAll(lookup[c].object.ETag, "\"")
            /\ pc[c] = "done" => Len(events[c]) = 1

\* C7: when requestInfo fails (an error, or no object listed) no event is
\* published, the handler goes on to deliver the backend's response, and the
\* process stays up.
C7_LookupFailureSkipsEvent ==
    \A c \in Conns :
        lookup[c].outcome \in {"error", "empty"} =>
            /\ alive
            /\ events[c] = <<>>
            /\ pc[c] \in {"redirect", "done"}
            /\ pc[c] = "done" =>
                  /\ w[c].Header = s3response[c].Header
                  /\ w[c].Body = s3response[c].Body

\* C8: whatever requests arrive and whatever fails while they are served,
\* the process is never terminated.
C8_ProcessNeverExits == alive

\* C9: when SendMessage has returned after a successful Publish and the
\* confirmation it received is a negative acknowledgment, its result is an
\* error.
C9_NackIsReturnedAsError ==
    \A c \in Conns :
        (SendMessageReturned(c) /\ tag[c] # 0 /\ ~confirmed[c].Ack) => err[c]

\* C10: the confirmation a SendMessage call received from the broker bears
\* the delivery tag of the message that call published.
C10_ConfirmationIsOwn ==
    \A c \in Conns :
        (SendMessageReturned(c) /\ confirmed[c].DeliveryTag # 0) =>
            confirmed[c].DeliveryTag = tag[c]

\* C11: a request that passed the policy gate and Authenticate is
\* eventually answered. Stated here in its weakest form, that the handler
\* eventually leaves allowedResponse at all (answered, panicked or with the
\* process exited): it waits forever neither for the backend's response
\* nor for the broker's confirmation.
C11_AllowedRequestIsAnswered ==
    \A c \in Conns : (pc[c] = "prepend") ~> (pc[c] \in {"done", "panicked", "exited"})

\* C12: once SendMessage has returned for a finished upload, whether
\* Publish succeeded, returned an error or was negatively acknowledged, no
\* error response has been written, and the response the handler ends with
\* is the backend's successful response.
C12_PublishOutcomeKeepsResponse ==
    \A c \in Conns :
        SendMessageReturned(c) =>
            /\ pc[c] = "redirect" => w[c] = NoResponse
            /\ pc[c] = "done" => w[c] = s3response[c]

\* An upload answered with the backend's response although Publish returned
\* an error.
C12_Witness ==
    \E c \in Conns :
        /\ pc[c] = "done"
        /\ listener[c] # 0
        /\ err[c]
        /\ w[c] = s3response[c]
        /\ w[c].StatusCode = 200

\* What the specification's completion rule gives for the request as it
\* arrived and the backend's status.
CompleteBySpec(c) ==
    LET url == URLString(inbound[c].URL)
    IN  /\ s3response[c].StatusCode \in 200..299
        /\ \/ inbound[c].Method = "PUT" /\ ~Contains(url, <<"partNumber">>)
           \/ inbound[c].Method = "POST" /\ Contains(url, <<"uploadId">>)

\* C13: the handler takes the upload for complete (goes on to build the
\* event) exactly when the backend's status is 2xx and the request is a PUT
\* whose URL has no partNumber or a POST whose URL has uploadId.
C13_CompleteExactlyOn2xx ==
    \A c \in Conns :
        /\ pc[c] = "CreateMessageFromRequest" => CompleteBySpec(c)
        /\ (pc[c] = "redirect" /\ listener[c] = 0) => ~CompleteBySpec(c)

\* C14: a GET is classified by its path and its parameters: Get when the
\* path ends with "/", whatever the query; otherwise Policy when acl is among
\* the parameters, at any position; otherwise List. Every GET with an acl
\* parameter is answered 403.
C14_GetClassification ==
    \A c \in Conns :
        (Classified(c) /\ inbound[c].Method = "GET") =>
            LET path == inbound[c].URL.Path
                query == inbound[c].URL.RawQuery
            IN  /\ RequestType(c) =
                      IF HasSuffix(path, <<"/">>) THEN "Get"
                      ELSE IF HasParam(query, "acl") THEN "Policy"
                      ELSE "List"
                /\ HasParam(query, "acl") =>
                      /\ authCalls[c] = 0
                      /\ sent[c] = <<>>
                      /\ pc[c] = "done" /\ w[c] = ErrorResponse(403)

\* C15: a PUT is classified by its path and its parameters: MakeBucket when
\* the path ends with "/", whatever the query; otherwise Policy when policy
\* is among the parameters, at any position; otherwise Put, part uploads
\* included. Every PUT with a policy parameter is answered 403.
C15_PutClassification ==
    \A c \in Conns :
        (Classified(c) /\ inbound[c].Method = "PUT") =>
            LET path == inbound[c].URL.Path
                query == inbound[c].URL.RawQuery
            IN  /\ RequestType(c) =
                      IF HasSuffix(path, <<"/">>) THEN "MakeBucket"
                      ELSE IF HasParam(query, "policy") THEN "Policy"
                      ELSE "Put"
                /\ HasParam(query, "policy") =>
                      /\ authCalls[c] = 0
                      /\ sent[c] = <<>>
                      /\ pc[c] = "done" /\ w[c] = ErrorResponse(403)

\* C16: a DELETE is RemoveBucket when the path ends with "/", even with
\* uploadId in the query; otherwise AbortMultipart when the query or the
\* path contains uploadId; otherwise Delete. Every other method than GET,
\* PUT and DELETE is Other.
C16_DeleteClassification ==
    \A c \in Conns :
        Classified(c) =>
            LET path == inbound[c].URL.Path
                query == inbound[c].URL.RawQuery
            IN  /\ inbound[c].Method = "DELETE" =>
                      RequestType(c) =
                          IF HasSuffix(path, <<"/">>) THEN "RemoveBucket"
                          ELSE IF Contains(query, <<"uploadId">>)
                                    \/ Contains(path, <<"uploadId">>)
                               THEN "AbortMultipart"
                          ELSE "Delete"
                /\ inbound[c].Method \notin {"GET", "PUT", "DELETE"} =>
                      RequestType(c) = "Other"

\* prependBucketToHostPath has returned for the request of goroutine c: r[c]
\* holds the rewritten URL. (A panic before the backend answered is the
\* rewriter's own.)
Prepended(c) ==
    /\ authCalls[c] = 1 /\ ~authErr[c]
    /\ pc[c] \notin {"Authenticate", "prepend"}
    /\ pc[c] = "panicked" => s3response[c] # NoResponse

\* GET /<username>/: the path is one segment between two slashes.
BucketListing(c) ==
    /\ inbound[c].Method = "GET"
    /\ Len(inbound[c].URL.Path) = 3
    /\ inbound[c].URL.Path = <<"/">> \o Username(c) \o <<"/">>

\* A query made of the delimiter parameter alone, its value not ending in "/".
OnlyDelimiter(q) ==
    /\ Len(Params(q)) = 1
    /\ HasParam(q, "delimiter")
    /\ ~HasSuffix(q, <<"/">>)

C18_DelimiterListingScoped ==
    \A c \in Conns :
        LET user == Username(c)
            before == inbound[c].URL.RawQuery
            after == r[c].URL.RawQuery
        IN  ( /\ inbound[c].Method = "GET"
              /\ RequestType(c) \in AllowSet
              /\ authCalls[c] = 1 /\ ~authErr[c]
              /\ HasParam(before, "delimiter")
              /\ user # <<>> ) =>
                /\ pc[c] # "panicked"
                /\ Prepended(c) =>
                      /\ r[c].URL.Path = BucketRoot
                      /\ PrefixValues(after) =
                            IF PrefixValues(before) = {}
                            THEN {user \o <<"%2F">>}
                            ELSE {user \o <<"%2F">> \o v : v \in PrefixValues(before)}
                      /\ ~HasParam(before, "prefix") =>
                            after = before \o <<"&", "prefix", "=">> \o user \o <<"%2F">>
                      /\ \A i \in 1..Len(Params(before)) :
                            ~HasPrefix(Params(before)[i], <<"prefix">>) =>
                                \E j \in 1..Len(Params(after)) :
                                    Params(after)[j] = Params(before)[i]

\* C19: once the rewriter has returned for a PUT or a POST, the request's
\* path is "/" + bucket + the path it arrived with, its query is the one it
\* arrived with, and that is the URL forwarded.
C19_UploadPathGetsBucket ==
    \A c \in Conns :
        (inbound[c].Method \in {"PUT", "POST"} /\ Prepended(c)) =>
            /\ r[c].URL.Path = <<"/">> \o Bucket \o inbound[c].URL.Path
            /\ r[c].URL.RawQuery = inbound[c].URL.RawQuery
            /\ \A i \in 1..Len(sent[c]) : sent[c][i].URL = r[c].URL

\* PUT /alice/data.bam was forwarded as /inbox/alice/data.bam.
C19_Witness ==
    \E c \in Conns :
        /\ inbound[c].Method = "PUT"
        /\ inbound[c].URL.Path = <<"/", "alice", "/", "data.bam">>
        /\ Len(sent[c]) = 1
        /\ sent[c][1].URL.Path = <<"/", "inbox", "/", "alice", "/", "data.bam">>

\* C20: a request is forwarded at most once, and when forwardToBackend
\* returned an error the handler is done with 500 written, and nothing was
\* looked up or published for the request.
C20_ForwardFailureIs500Once ==
    \A c \in Conns :
        /\ Len(sent[c]) <= 1
        /\ forwardErr[c] =>
              /\ pc[c] = "done"
              /\ w[c] = ErrorResponse(500)
              /\ events[c] = <<>>
              /\ lookup[c] = NoLookup
              /\ listener[c] = 0

\* A request that went out once, failed in client.Do and was answered 500.
C20_Witness ==
    \E c \in Conns :
        /\ forwardErr[c]
        /\ Len(sent[c]) = 1
        /\ pc[c] = "done"
        /\ w[c].StatusCode = 500

\* The request of goroutine c passed the policy gate and Authenticate.
Authenticated(c) == authCalls[c] = 1 /\ ~authErr[c]

\* C21: an allowed, authenticated request whose path has no user name
\* segment followed by "/" does not panic in the rewriter and is answered
\* with an error status; and a finished upload whose rewritten path gives
\* the event builder no user name does not panic there and publishes
\* nothing.
C21_NoUsernameIsErrorNotPanic ==
    \A c \in Conns :
        Authenticated(c) =>
            /\ Username(c) = <<>> =>
                  /\ pc[c] # "panicked"
                  /\ pc[c] = "done" => w[c].StatusCode \in 400..599
            /\ (Prepended(c) /\ EventUsername(r[c].URL.Path) = <<>>) =>
                  /\ pc[c] # "panicked"
                  /\ events[c] = <<>>

\* The first non-empty segment of a path (<<>> when it has none).
FirstSegment(path) ==
    LET segments == Split(path, <<"/">>)
        filled == {i \in 1..Len(segments) : segments[i] # <<>>}
    IN  IF filled = {} THEN <<>> ELSE segments[Min(filled)]

\* C22: the user name in a published event is the one the rewriter took
\* from the request as it arrived, the first non-empty segment of its path.
C22_EventUsernameIsRewriters ==
    \A c \in Conns :
        \A i \in 1..Len(events[c]) :
            /\ events[c][i].Username = Username(c)
            /\ events[c][i].Username = FirstSegment(inbound[c].URL.Path)

\* C23: when the inbound content-length header is missing or is not a
\* number, nothing is sent to the backend for the request, and once the
\* forward has returned the handler is done with 500 written.
C23_BadContentLengthIsError ==
    \A c \in Conns :
        ParseInt(inbound[c].ContentLength).err =>
            /\ sent[c] = <<>>
            /\ (Prepended(c) /\ pc[c] # "forwardToBackend") =>
                  pc[c] = "done" /\ w[c] = ErrorResponse(500)

====
